---- MODULE Spec2Model ----
(***************************************************************************)
(* A model of the String buffer of cores/esp8266/WString.cpp: the inline   *)
(* (SSO) and heap representations, the capacity manager, copy and move,    *)
(* concat, insert, the addition operators and the in-place editing         *)
(* algorithms.                                                             *)
(*                                                                         *)
(* Bytes are numbers, 0 is the terminator and characters are ASCII codes.  *)
(* A pointer into a buffer is an offset, counted from 0 as in the source;  *)
(* the byte at offset k of a buffer b is b[k + 1].                         *)
(*                                                                         *)
(* Every operation of the source is an operator from a world to a world.   *)
(* A world is the record                                                   *)
(*   str    the String objects, by object id                               *)
(*   heap   the allocator's blocks, by block id (<<>> is a free block)     *)
(*   al     the allocator's answers to the calls still to come             *)
(*   junk   the value of bytes the program never set                       *)
(*   wrote_past  a write went past the end of its storage                  *)
(*   read_past   a read went outside the storage it was aimed at            *)
(*   ticks  the iterations of the comparison loop of the last call         *)
(*   bad    free() was given a block that is not allocated                 *)
(*   ret    the value the last call returned                               *)
(***************************************************************************)
EXTENDS Integers, Sequences, FiniteSets, TLC

VARIABLES str, heap, ret, last, wrote_past, read_past, ticks, bad, junk, steps

vars == <<str, heap, ret, last, wrote_past, read_past, ticks, bad, junk, steps>>

(***************************************************************************)
(* Sizes.                                                                  *)
(***************************************************************************)
\* sizeof(sso.buff), declared in WString.h
SSOSIZE == 11

\* The ceiling of changeBuffer. WString.h sets 65535; the model takes a small
\* ceiling so that the ceiling branch is reached with short strings.
CAPACITY_MAX == 47

\* UINT_MAX, the greatest unsigned int and size_t: 2^32 - 1 on the target. The
\* model takes 2^20 - 1, far above the ceiling, so that the sums of sizes wrap
\* as they do on the target.
UINT_MAX == 1048575

\* The allocator's blocks.
MaxBlocks == 3

Blocks == 1..MaxBlocks

\* The String objects of the program, and the object that holds the result of
\* an expression (String res; String out).
Objs == {1, 2}

Tmp == 1 + Cardinality(Objs)

AllObjs == Objs \cup {Tmp}

\* Values a byte the program never set may have.
JunkBytes == {0, 255}

AllocAnswers == {"fail", "same", "move"}

(***************************************************************************)
(* Byte runs.                                                              *)
(***************************************************************************)
\* (every run is built with \o and SubSeq, so that it is a tuple)
Fill(n, b) == [i \in 1..n |-> b] \o <<>>

MinOf(S) == CHOOSE x \in S : \A y \in S : x <= y

MaxOf(S) == CHOOSE x \in S : \A y \in S : x >= y

\* n bytes read at offset off; a byte past the end reads as j
Slice(bytes, off, n, j) ==
    LET have == IF off >= Len(bytes) THEN 0
                ELSE IF off + n <= Len(bytes) THEN n ELSE Len(bytes) - off
    IN  (IF have = 0 THEN <<>> ELSE SubSeq(bytes, off + 1, off + have)) \o Fill(n - have, j)

\* data written at offset off; the run grows when the write goes past its end
Overlay(bytes, off, data) ==
    LET head == IF off <= Len(bytes) THEN SubSeq(bytes, 1, off)
                ELSE bytes \o Fill(off - Len(bytes), 0)
        rest == IF off + Len(data) < Len(bytes)
                THEN SubSeq(bytes, off + Len(data) + 1, Len(bytes)) ELSE <<>>
    IN  head \o data \o rest

\* strlen(p + off)
strlen(bytes, off) ==
    LET z == {i \in (off + 1)..Len(bytes) : bytes[i] = 0}
    IN  IF z = {} THEN Len(bytes) - off ELSE MinOf(z) - 1 - off

(***************************************************************************)
(* Accessors (WString.h).                                                  *)
(***************************************************************************)
isSSO(w, o) == w.str[o].isSSO

len(w, o) == w.str[o].len

capacity(w, o) == IF isSSO(w, o) THEN SSOSIZE - 1 ELSE w.str[o].cap

\* the bytes of the active storage
buffer(w, o) == IF isSSO(w, o) THEN w.str[o].buff ELSE
                IF w.str[o].ptr = 0 THEN <<>> ELSE w.heap[w.str[o].ptr]

\* buffer() != nullptr
hasBuffer(w, o) == isSSO(w, o) \/ w.str[o].ptr # 0

\* the identity of the active storage, what wbuffer() points to
wbuffer(w, o) == IF isSSO(w, o) THEN <<"sso", o>> ELSE <<"heap", w.str[o].ptr>>

\* the content: the len() bytes at the start of the active storage
content(w, o) == Slice(buffer(w, o), 0, len(w, o), 0)

setLen(w, o, n) == [w EXCEPT !.str[o].len = IF isSSO(w, o) THEN n % 128 ELSE n]

\* memmove / memcpy of data to wbuffer() + off
poke(w, o, off, data) ==
    IF Len(data) = 0 THEN w
    ELSE IF isSSO(w, o)
         THEN [w EXCEPT !.str[o].buff = Overlay(@, off, data),
                        !.wrote_past = @ \/ off + Len(data) > Len(w.str[o].buff)]
         ELSE [w EXCEPT !.heap[w.str[o].ptr] = Overlay(@, off, data),
                        !.wrote_past = @ \/ off + Len(data) > Len(buffer(w, o))]

\* the inline storage as init() leaves it
init(w, o) ==
    [w EXCEPT !.str[o] = [isSSO |-> TRUE,
                          buff |-> IF @.isSSO THEN <<0>> \o Tail(@.buff)
                                   ELSE <<0>> \o Fill(SSOSIZE - 1, w.junk),
                          len |-> 0, cap |-> 0, ptr |-> 0]]

\* String(): init() on storage nothing has written
construct(w, o) ==
    [w EXCEPT !.str[o] = [isSSO |-> TRUE,
                          buff |-> <<0>> \o Fill(SSOSIZE - 1, w.junk),
                          len |-> 0, cap |-> 0, ptr |-> 0]]

(***************************************************************************)
(* The allocator.                                                          *)
(***************************************************************************)
FreeBlocks(w) == {b \in Blocks : w.heap[b] = <<>>}

free(w, p) ==
    IF p = 0 THEN w
    ELSE IF w.heap[p] = <<>> THEN [w EXCEPT !.bad = TRUE]
    ELSE [w EXCEPT !.heap[p] = <<>>]

\* the allocator's answer to the next request
answer(w) == IF w.al = <<>> THEN "same" ELSE Head(w.al)

\* the block realloc() returns with its newSize bytes: the old bytes, then junk
realloc_to(w, p, b, newSize) ==
    [w EXCEPT !.al = IF @ = <<>> THEN <<>> ELSE Tail(@),
              !.heap = [x \in Blocks |->
                          IF x = b THEN Slice(IF p = 0 THEN <<>> ELSE w.heap[p],
                                              0, newSize, w.junk)
                          ELSE IF x = p THEN <<>> ELSE w.heap[x]],
              !.ret = b]

\* realloc(p, 0): the allocator of the target frees p and returns null
realloc_zero(w, p) ==
    [free(w, p) EXCEPT !.al = IF @ = <<>> THEN <<>> ELSE Tail(@), !.ret = 0]

\* realloc(p, newSize): ret is the block, 0 when it fails. The answer is the
\* next of al: the block stays where it is or moves; a null p gets a new block.
realloc(w, p, newSize) ==
    IF newSize = 0 THEN realloc_zero(w, p)
    ELSE IF answer(w) = "fail" \/ (p = 0 /\ FreeBlocks(w) = {})
    THEN [w EXCEPT !.al = IF @ = <<>> THEN <<>> ELSE Tail(@), !.ret = 0]
    ELSE IF p # 0 /\ (answer(w) = "same" \/ FreeBlocks(w) = {})
         THEN realloc_to(w, p, p, newSize)
         ELSE realloc_to(w, p, MinOf(FreeBlocks(w)), newSize)

(***************************************************************************)
(* Memory management.                                                      *)
(***************************************************************************)
invalidate(w, o) ==
    init(IF ~isSSO(w, o) /\ w.str[o].ptr # 0 THEN free(w, w.str[o].ptr) ELSE w, o)

\* changeBuffer(): the switch to the inline storage
changeBuffer_sso(w, o, maxStrLen) ==
    IF isSSO(w, o) THEN [setLen(w, o, len(w, o) % 65536) EXCEPT !.ret = TRUE]
    ELSE [free(poke([w EXCEPT !.str[o] = [isSSO |-> TRUE,
                                          buff |-> Fill(SSOSIZE, w.junk),
                                          len |-> (len(w, o) % 65536) % 128,
                                          cap |-> 0, ptr |-> 0]],
                    o, 0,
                    IF w.str[o].ptr = 0 THEN <<>>
                    ELSE Slice(w.heap[w.str[o].ptr], 0, maxStrLen, w.junk)),
               w.str[o].ptr)
            EXCEPT !.ret = TRUE]

\* changeBuffer(): the new block with the bytes past the old size set to zero
memset_tail(bytes, oldSize, newSize) ==
    IF newSize > oldSize THEN Overlay(bytes, oldSize, Fill(newSize - oldSize, 0)) ELSE bytes

\* changeBuffer(): after realloc(), w1 the world it leaves
changeBuffer_heap(w, w1, o, newSize, oldSize) ==
    IF w1.ret = 0 THEN [w1 EXCEPT !.ret = FALSE]
    ELSE [w1 EXCEPT !.heap[w1.ret] =
                        memset_tail(IF isSSO(w, o)
                                    THEN Overlay(@, 0, Slice(w.str[o].buff, 0, SSOSIZE, w.junk))
                                    ELSE @,
                                    oldSize, newSize),
                    !.str[o] = [isSSO |-> FALSE, buff |-> <<>>,
                                len |-> len(w, o) % 65536, cap |-> newSize - 1,
                                ptr |-> w1.ret],
                    !.ret = TRUE]

\* the size of the block for maxStrLen characters: (maxStrLen + 16) & (~0xf)
\* in unsigned arithmetic
newSizeOf(maxStrLen) == (((maxStrLen + 16) % (UINT_MAX + 1)) \div 16) * 16

changeBuffer(w, o, maxStrLen) ==
    IF maxStrLen < SSOSIZE - 1 THEN changeBuffer_sso(w, o, maxStrLen)
    ELSE IF newSizeOf(maxStrLen) > CAPACITY_MAX THEN [w EXCEPT !.ret = FALSE]
    ELSE changeBuffer_heap(w,
                           realloc(w, IF isSSO(w, o) THEN 0 ELSE w.str[o].ptr,
                                   newSizeOf(maxStrLen)),
                           o, newSizeOf(maxStrLen), capacity(w, o) + 1)

\* reserve(): after changeBuffer(), w1 the world it leaves
reserve_done(w1, o) ==
    IF w1.ret /\ len(w1, o) = 0 THEN [poke(w1, o, 0, <<0>>) EXCEPT !.ret = TRUE]
    ELSE w1

reserve(w, o, size) ==
    IF hasBuffer(w, o) /\ capacity(w, o) >= size THEN [w EXCEPT !.ret = TRUE]
    ELSE reserve_done(changeBuffer(w, o, size), o)

(***************************************************************************)
(* Copy and move. A source run cstr holds the bytes at the source pointer, *)
(* its terminator included.                                                *)
(***************************************************************************)
\* copy() after reserve(), as it would be if a failed reserve() were not
\* followed by invalidate()
copy_keeps_done(w1, o, cstr, length) ==
    IF ~w1.ret THEN [setLen(w1, o, length) EXCEPT !.ret = FALSE]
    ELSE [poke(setLen(w1, o, length), o, 0, Slice(cstr, 0, length + 1, w1.junk))
            EXCEPT !.ret = TRUE]

copy_keeps(w, o, cstr, length) == copy_keeps_done(reserve(w, o, length), o, cstr, length)

\* copy(): after reserve(), w1 the world it leaves
copy_done(w1, o, cstr, length) ==
    IF ~w1.ret THEN [invalidate(w1, o) EXCEPT !.ret = FALSE]
    ELSE [poke(setLen(w1, o, length), o, 0, Slice(cstr, 0, length + 1, w1.junk))
            EXCEPT !.ret = TRUE]

\* copy(const char *cstr, unsigned int length); ret tells whether it got its storage
copy(w, o, cstr, length) == copy_done(reserve(w, o, length), o, cstr, length)

\* copy(const __FlashStringHelper *pstr, unsigned int length)
copy_P(w, o, pstr, length) == copy_done(reserve(w, o, length), o, pstr, length)

\* move() as it would be without rhs.init()
move_shares_done(w1, o, rhs) == [w1 EXCEPT !.str[o] = w1.str[rhs]]

move_shares(w, o, rhs) == move_shares_done(invalidate(w, o), o, rhs)

\* move(): after invalidate(), w1 the world it leaves
move_done(w1, o, rhs) == init([w1 EXCEPT !.str[o] = w1.str[rhs]], rhs)

move(w, o, rhs) == move_done(invalidate(w, o), o, rhs)

\* operator=(const String &rhs)
assignString(w, o, rhs) ==
    IF o = rhs THEN w
    ELSE IF hasBuffer(w, rhs)
         THEN copy(w, o, Slice(buffer(w, rhs), 0, len(w, rhs) + 1, w.junk), len(w, rhs))
         ELSE invalidate(w, o)

\* operator=(String &&rval)
assignMove(w, o, rval) == IF o # rval THEN move(w, o, rval) ELSE w

\* operator=(const char *cstr), cstr not null
assignCstr(w, o, cstr) == copy(w, o, cstr, strlen(cstr, 0))

\* operator=(const __FlashStringHelper *pstr), pstr not null
assignPstr(w, o, pstr) == copy_P(w, o, pstr, strlen(pstr, 0))

(***************************************************************************)
(* concat.                                                                 *)
(***************************************************************************)
\* concat(): after reserve(), w1 the world it leaves and data the length bytes
\* at cstr
concat_done(w1, o, data, newlen) ==
    IF ~w1.ret THEN [w1 EXCEPT !.ret = FALSE]
    ELSE [poke(setLen(poke(w1, o, len(w1, o), data), o, newlen), o, newlen, <<0>>)
            EXCEPT !.ret = TRUE]

\* concat() after reserve(), as it would be if it invalidated the value when
\* reserve() fails
concat_invalidates_done(w1, o, data, newlen) ==
    IF ~w1.ret THEN [invalidate(w1, o) EXCEPT !.ret = FALSE]
    ELSE concat_done(w1, o, data, newlen)

concat_invalidates(w, o, cstr, length) ==
    IF length = 0 THEN [w EXCEPT !.ret = TRUE]
    ELSE concat_invalidates_done(reserve(w, o, len(w, o) + length), o,
                                 Slice(cstr, 0, length, w.junk), len(w, o) + length)

\* concat(const char *cstr, unsigned int length), cstr not null
concat(w, o, cstr, length) ==
    IF length = 0 THEN [w EXCEPT !.ret = TRUE]
    ELSE concat_done(reserve(w, o, len(w, o) + length), o,
                     Slice(cstr, 0, length, w.junk), len(w, o) + length)

\* concat(const String &s) with s being this, after reserve(): the bytes are
\* read at the buffer() taken after reserve()
concatSelf_done(w1, o, newlen) ==
    concat_done(w1, o, Slice(buffer(w1, o), 0, len(w1, o), w1.junk), newlen)

\* the same with the pointer s.buffer() taken before reserve(): it reads what
\* the superseded storage holds (its old bytes, or junk) when reserve() moved it
concatSelf_early(w, w1, o, newlen) ==
    concat_done(w1, o,
                IF wbuffer(w1, o) # wbuffer(w, o) /\ w.junk # 0
                THEN Fill(len(w, o), w.junk)
                ELSE Slice(buffer(w, o), 0, len(w, o), w.junk),
                newlen)

\* concat(const String &s) as it would be without the special case of s being
\* this
concatString_early(w, o, s) ==
    IF ~hasBuffer(w, s) THEN [w EXCEPT !.ret = FALSE]
    ELSE IF s # o THEN concat(w, o, Slice(buffer(w, s), 0, len(w, s), w.junk), len(w, s))
    ELSE IF len(w, s) = 0 THEN [w EXCEPT !.ret = TRUE]
    ELSE concatSelf_early(w, reserve(w, o, 2 * len(w, o)), o, 2 * len(w, o))

\* concat(const String &s)
concatString(w, o, s) ==
    IF s = o
    THEN IF ~hasBuffer(w, s) THEN [w EXCEPT !.ret = FALSE]
         ELSE IF len(w, s) = 0 THEN [w EXCEPT !.ret = TRUE]
         ELSE concatSelf_done(reserve(w, o, 2 * len(w, o)), o, 2 * len(w, o))
    ELSE IF ~hasBuffer(w, s) THEN [w EXCEPT !.ret = FALSE]
    ELSE concat(w, o, Slice(buffer(w, s), 0, len(w, s), w.junk), len(w, s))

\* concat(const __FlashStringHelper *str): after reserve()
concat_P_done(w1, o, data, newlen) ==
    IF ~w1.ret THEN [w1 EXCEPT !.ret = FALSE]
    ELSE [setLen(poke(w1, o, len(w1, o), data), o, newlen) EXCEPT !.ret = TRUE]

\* concat(const __FlashStringHelper *str), str not null
concat_P(w, o, pstr) ==
    IF strlen(pstr, 0) = 0 THEN [w EXCEPT !.ret = TRUE]
    ELSE concat_P_done(reserve(w, o, len(w, o) + strlen(pstr, 0)), o,
                       Slice(pstr, 0, strlen(pstr, 0) + 1, w.junk),
                       len(w, o) + strlen(pstr, 0))

(***************************************************************************)
(* Insert. The source pointer other is [obj, off, data]: the object whose  *)
(* storage it points into (0 for memory outside every String), the offset *)
(* in that storage, and the bytes there when the call is made.             *)
(***************************************************************************)
\* the bytes memmove_P(start, other, other_length) reads, after reserve() and
\* after the tail has been shifted: the bytes of the call for a pointer into
\* other memory, the bytes now in the storage for a pointer into this
\* object's storage that reserve() left in place, and what the superseded
\* storage holds (its old bytes, or junk) when reserve() moved it
insertSource(w0, w3, o, other, other_length) ==
    IF other.obj # o THEN Slice(other.data, 0, other_length, w0.junk)
    ELSE IF wbuffer(w0, o) = wbuffer(w3, o)
         THEN Slice(buffer(w3, o), other.off, other_length, w0.junk)
         ELSE IF w0.junk = 0 THEN Slice(other.data, 0, other_length, w0.junk)
              ELSE Fill(other_length, w0.junk)

\* insert(): the copy of other into the gap and the terminator, w3 the world
\* after the tail has been shifted
insert_fill(w, w3, o, position, other, other_length) ==
    [poke(poke(w3, o, position, insertSource(w, w3, o, other, other_length)),
          o, len(w, o) + other_length, <<0>>)
       EXCEPT !.ret = TRUE]

\* insert(): setLen() and the shift of the tail, w1 the world after reserve()
insert_shift(w, w1, o, position, other, other_length) ==
    IF ~w1.ret THEN [w1 EXCEPT !.ret = FALSE]
    ELSE insert_fill(w,
                     poke(setLen(w1, o, len(w, o) + other_length), o,
                          position + other_length,
                          Slice(buffer(w1, o), position, len(w, o) - position, w.junk)),
                     o, position, other, other_length)

\* insert(size_t position, const char *other, size_t other_length)
insert(w, o, position, other, other_length) ==
    IF position > len(w, o) THEN [w EXCEPT !.ret = FALSE]
    ELSE insert_shift(w, reserve(w, o, len(w, o) + other_length),
                      o, position, other, other_length)

\* c_str() of s, as a source pointer
c_str(w, s) == [obj |-> s, off |-> 0,
                data |-> Slice(buffer(w, s), 0, len(w, s) + 1, w.junk)]

\* a pointer to memory outside every String
extern(bytes) == [obj |-> 0, off |-> 0, data |-> bytes]

\* insert(size_t position, const String &other)
insertString(w, o, position, s) == insert(w, o, position, c_str(w, s), len(w, s))

(***************************************************************************)
(* The addition operators. The result is built in the object Tmp.          *)
(***************************************************************************)
\* operator +(const String &lhs, String &&rhs)
plus_String_rval(w, lhs, rhs) ==
    IF capacity(w, rhs) > len(w, lhs) + len(w, rhs)
    THEN assignMove(insertString(construct(w, Tmp), rhs, 0, lhs), Tmp, rhs)
    ELSE invalidate(concatString(concatString(reserve(construct(w, Tmp), Tmp,
                                                      len(w, lhs) + len(w, rhs)),
                                              Tmp, lhs),
                                 Tmp, rhs),
                    rhs)

\* operator +(String &&lhs, String &&rhs)
plus_rval_rval(w, lhs, rhs) ==
    IF len(w, lhs) + len(w, rhs) > capacity(w, lhs)
       /\ len(w, lhs) + len(w, rhs) < capacity(w, rhs)
    THEN assignMove(insertString(construct(w, Tmp), rhs, 0, lhs), Tmp, rhs)
    ELSE assignMove(invalidate(concatString(construct(w, Tmp), lhs, rhs), rhs), Tmp, lhs)

\* operator +(char lhs, const String &rhs)
plus_char_String(w, lhs, rhs) ==
    concatString(concat(reserve(construct(w, Tmp), Tmp, len(w, rhs) + 1),
                        Tmp, <<lhs>>, 1),
                 Tmp, rhs)

\* operator +(const char *lhs, const String &rhs)
plus_cstr_String(w, lhs, rhs) ==
    concatString(concat(reserve(construct(w, Tmp), Tmp, strlen(lhs, 0) + len(w, rhs)),
                        Tmp, lhs, strlen(lhs, 0)),
                 Tmp, rhs)

(***************************************************************************)
(* Reads and moves inside the active storage.                              *)
(***************************************************************************)
\* no terminator at or after offset off of the run
unterminated(bytes, off) == \A i \in (off + 1)..Len(bytes) : bytes[i] # 0

\* a loop that walks the buffer from offset off up to the terminator
cscan(w, o, off) == [w EXCEPT !.read_past = @ \/ unterminated(buffer(w, o), off)]

\* memmove(wbuffer() + dst, buffer() + src, n); a negative n is a huge size_t
memmove(w, o, dst, src, n) ==
    IF n < 0 THEN [w EXCEPT !.wrote_past = TRUE, !.read_past = TRUE]
    ELSE [poke(w, o, dst, Slice(buffer(w, o), src, n, w.junk))
            EXCEPT !.read_past = @ \/ (n > 0 /\ src + n > Len(buffer(w, o)))]

(***************************************************************************)
(* Comparison.                                                             *)
(***************************************************************************)
\* the positions before the terminator of p1 at which p1 and p2 agree
equalchars(p1, p2, junkByte) ==
    Cardinality({i \in 1..strlen(p1, 0) : p1[i] = Slice(p2, i - 1, 1, junkByte)[1]})

\* equalsConstantTime(const String &s2): ret is the result being 1, ticks the
\* iterations of the loop
equalsConstantTime(w, o, s2) ==
    IF len(w, o) # len(w, s2) THEN [w EXCEPT !.ret = FALSE, !.ticks = 0]
    ELSE IF len(w, o) = 0 THEN [w EXCEPT !.ret = TRUE, !.ticks = 0]
    ELSE [cscan(w, o, 0) EXCEPT
            !.ret = /\ equalchars(buffer(w, o), buffer(w, s2), w.junk) = len(w, o)
                    /\ strlen(buffer(w, o), 0)
                         - equalchars(buffer(w, o), buffer(w, s2), w.junk) = 0,
            !.ticks = strlen(buffer(w, o), 0)]

(***************************************************************************)
(* Search.                                                                 *)
(***************************************************************************)
\* the n bytes at offset i of the run are the first n bytes of find
matchAt(bytes, i, find, n) ==
    i >= 0 /\ i + n <= Len(bytes) /\ SubSeq(bytes, i + 1, i + n) = SubSeq(find, 1, n)

\* strstr_P(p + from, find): the offset of the first occurrence of the string
\* find in the string at offset from, -1 for none
strstr(bytes, from, find) ==
    LET S == {i \in from..(from + strlen(bytes, from) - strlen(find, 0)) :
                 matchAt(bytes, i, find, strlen(find, 0))}
    IN  IF S = {} THEN -1 ELSE MinOf(S)

\* __strrstr_P(p, length, find, findLen): the offset of the last occurrence of
\* the findLen bytes of find in the first length bytes at p, -1 for none
__strrstr_P(bytes, length, find, findLen) ==
    LET S == {i \in 0..(length - findLen) : matchAt(bytes, i, find, findLen)}
    IN  IF S = {} THEN -1 ELSE MaxOf(S)

\* _lastIndexOf_P(PGM_P find, size_t fromIndex, size_t findLen), find not null
\* and fromIndex not ~0U
_lastIndexOf_P(w, o, find, fromIndex, findLen) ==
    IF len(w, o) = 0 THEN -1
    ELSE __strrstr_P(buffer(w, o), fromIndex + findLen, find, findLen)

(***************************************************************************)
(* Substring. The result is built in the object Tmp.                       *)
(***************************************************************************)
\* substring() as it would be without the restore of the replaced character
substring_assign_norestore(w1, o, left, right, tempchar) ==
    assignCstr(w1, Tmp, Slice(buffer(w1, o), left, Len(buffer(w1, o)) - left, w1.junk))

\* substring(): out = writeTo + left, then the restore of the replaced
\* character; w1 the world with the terminator written at right
substring_assign(w1, o, left, right, tempchar) ==
    poke(assignCstr(w1, Tmp, Slice(buffer(w1, o), left, Len(buffer(w1, o)) - left, w1.junk)),
         o, right, <<tempchar>>)

\* substring(): left <= right, out constructed
substring_ordered(w, o, left, right) ==
    IF left >= len(w, o) THEN [w EXCEPT !.ret = TRUE]
    ELSE substring_assign(poke(w, o, IF right > len(w, o) THEN len(w, o) ELSE right, <<0>>),
                          o, left,
                          IF right > len(w, o) THEN len(w, o) ELSE right,
                          Slice(buffer(w, o),
                                IF right > len(w, o) THEN len(w, o) ELSE right, 1, w.junk)[1])

\* substring(unsigned int left, unsigned int right); ret tells whether the copy
\* into the result got its storage
substring(w, o, left, right) ==
    IF left > right THEN substring_ordered(construct(w, Tmp), o, right, left)
    ELSE substring_ordered(construct(w, Tmp), o, left, right)

(***************************************************************************)
(* Modification.                                                           *)
(***************************************************************************)
isspace(c) == c = 32 \/ (c >= 9 /\ c <= 13)

tolower(c) == IF c >= 65 /\ c <= 90 THEN c + 32 ELSE c

toupper(c) == IF c >= 97 /\ c <= 122 THEN c - 32 ELSE c

\* the run with tolower applied to every byte
lowered(bytes) == [i \in 1..Len(bytes) |-> tolower(bytes[i])] \o <<>>

\* the run with toupper applied to every byte
uppered(bytes) == [i \in 1..Len(bytes) |-> toupper(bytes[i])] \o <<>>

\* the run with every byte find replaced by repl
exchange(bytes, find, repl) ==
    [i \in 1..Len(bytes) |-> IF bytes[i] = find THEN repl ELSE bytes[i]] \o <<>>

\* replace(char find, char replace)
replaceChar(w, o, find, repl) ==
    IF ~hasBuffer(w, o) THEN [w EXCEPT !.ret = TRUE]
    ELSE [cscan(poke(w, o, 0,
                     exchange(Slice(buffer(w, o), 0, strlen(buffer(w, o), 0), w.junk),
                              find, repl)),
                o, 0)
            EXCEPT !.ret = TRUE]

\* _replace(), diff == 0: the loop, readFrom the offset it searches from
RECURSIVE replace_equal(_, _, _, _, _, _)
replace_equal(w, o, readFrom, find, repl, replaceLen) ==
    LET foundAt == strstr(buffer(w, o), readFrom, find)
    IN  IF foundAt = -1 THEN [cscan(w, o, readFrom) EXCEPT !.ret = TRUE]
        ELSE replace_equal(poke(w, o, foundAt, Slice(repl, 0, replaceLen, w.junk)),
                           o, foundAt + replaceLen, find, repl, replaceLen)

\* _replace(), diff < 0: the loop and the move that follows it
RECURSIVE replace_shrink(_, _, _, _, _, _, _, _)
replace_shrink(w, o, readFrom, writeTo, find, findLen, repl, replaceLen) ==
    LET foundAt == strstr(buffer(w, o), readFrom, find)
    IN  IF foundAt = -1
        THEN [memmove(cscan(w, o, readFrom), o, writeTo, readFrom,
                      strlen(buffer(w, o), readFrom) + 1)
                EXCEPT !.ret = TRUE]
        ELSE replace_shrink(
                 setLen(poke(memmove(w, o, writeTo, readFrom, foundAt - readFrom),
                             o, writeTo + (foundAt - readFrom),
                             Slice(repl, 0, replaceLen, w.junk)),
                        o, len(w, o) + replaceLen - findLen),
                 o, foundAt + findLen, writeTo + (foundAt - readFrom) + replaceLen,
                 find, findLen, repl, replaceLen)

\* _replace(), diff > 0: the size the first loop computes
RECURSIVE replace_size(_, _, _, _, _, _)
replace_size(bytes, readFrom, find, findLen, diff, size) ==
    LET foundAt == strstr(bytes, readFrom, find)
    IN  IF foundAt = -1 THEN size
        ELSE replace_size(bytes, foundAt + findLen, find, findLen, diff, size + diff)

\* _replace(), diff > 0: one round of the second loop, for the match at index
replace_at(w, o, index, findLen, repl, replaceLen) ==
    poke(setLen(poke(memmove(w, o, index + replaceLen, index + findLen,
                             len(w, o) - (index + findLen)),
                     o, index, Slice(repl, 0, replaceLen, w.junk)),
                o, len(w, o) + replaceLen - findLen),
         o, len(w, o) + replaceLen - findLen, <<0>>)

\* _replace(), diff > 0: the second loop, from index down
RECURSIVE replace_walk(_, _, _, _, _, _, _)
replace_walk(w, o, index, find, findLen, repl, replaceLen) ==
    IF index < 0 \/ _lastIndexOf_P(w, o, find, index, findLen) < 0 THEN w
    ELSE replace_walk(replace_at(w, o, _lastIndexOf_P(w, o, find, index, findLen),
                                 findLen, repl, replaceLen),
                      o, _lastIndexOf_P(w, o, find, index, findLen) - 1,
                      find, findLen, repl, replaceLen)

\* _replace(), diff > 0: after changeBuffer(), w1 the world it leaves
replace_grown(w1, o, find, findLen, repl, replaceLen) ==
    IF ~w1.ret THEN [w1 EXCEPT !.ret = FALSE]
    ELSE [replace_walk(w1, o, len(w1, o) - 1, find, findLen, repl, replaceLen)
            EXCEPT !.ret = TRUE]

\* _replace(), diff > 0: size the size computed
replace_grow(w, o, find, findLen, repl, replaceLen, size) ==
    IF size = len(w, o) THEN [w EXCEPT !.ret = FALSE]
    ELSE IF size > capacity(w, o)
         THEN replace_grown(changeBuffer(w, o, size), o, find, findLen, repl, replaceLen)
         ELSE [replace_walk(w, o, len(w, o) - 1, find, findLen, repl, replaceLen)
                 EXCEPT !.ret = TRUE]

\* _replace(PGM_P findStr, size_t findLen, PGM_P replaceStr, size_t replaceLen),
\* findStr not null
_replace(w, o, find, findLen, repl, replaceLen) ==
    IF len(w, o) = 0 \/ findLen = 0 THEN [w EXCEPT !.ret = FALSE]
    ELSE IF replaceLen = findLen THEN replace_equal(w, o, 0, find, repl, replaceLen)
    ELSE IF replaceLen < findLen
         THEN replace_shrink(w, o, 0, 0, find, findLen, repl, replaceLen)
    ELSE replace_grow(w, o, find, findLen, repl, replaceLen,
                      replace_size(buffer(w, o), 0, find, findLen, replaceLen - findLen,
                                   len(w, o)))

\* remove(): count at most len() - index
remove_counted(w, o, index, count) ==
    poke(memmove(setLen(w, o, len(w, o) - count), o, index, index + count,
                 len(w, o) - count - index),
         o, len(w, o) - count, <<0>>)

\* remove(unsigned int index, unsigned int count)
remove(w, o, index, count) ==
    IF index >= len(w, o) THEN w
    ELSE IF count <= 0 THEN w
    ELSE remove_counted(w, o, index,
                        IF count > len(w, o) - index THEN len(w, o) - index ELSE count)

\* toLowerCase()
toLowerCase(w, o) ==
    IF ~hasBuffer(w, o) THEN w
    ELSE cscan(poke(w, o, 0,
                    lowered(Slice(buffer(w, o), 0, strlen(buffer(w, o), 0), w.junk))),
               o, 0)

\* toUpperCase()
toUpperCase(w, o) ==
    IF ~hasBuffer(w, o) THEN w
    ELSE cscan(poke(w, o, 0,
                    uppered(Slice(buffer(w, o), 0, strlen(buffer(w, o), 0), w.junk))),
               o, 0)

\* TrimType (WString.h)
TrimTypes == {"LEFT", "RIGHT", "BOTH"}

\* type & TrimType::LEFT, type & TrimType::RIGHT
trimsLeft(type) == type \in {"LEFT", "BOTH"}

trimsRight(type) == type \in {"RIGHT", "BOTH"}

\* _trim(TrimType): begin after the first loop; the storage ends the walk of
\* a buffer that holds nothing but whitespace
trim_begin(bytes, type) ==
    IF trimsLeft(type)
    THEN MinOf({i \in 0..Len(bytes) : i = Len(bytes) \/ ~isspace(bytes[i + 1])})
    ELSE 0

\* _trim(TrimType): end after the second loop, which reads *end before it
\* compares end with begin
trim_end(bytes, type, begin, length) ==
    IF trimsRight(type) /\ begin <= length
    THEN MaxOf({e \in (begin - 1)..(length - 1) : e < begin \/ ~isspace(bytes[e + 1])})
    ELSE length - 1

\* _trim(TrimType): the move, setLen() and the terminator
trim_move(w, o, begin, end) ==
    IF begin > len(w, o) THEN [w EXCEPT !.read_past = TRUE, !.wrote_past = TRUE]
    ELSE poke(setLen(IF begin > 0 THEN memmove(w, o, 0, begin, end + 1 - begin) ELSE w,
                     o, end + 1 - begin),
              o, end + 1 - begin, <<0>>)

\* _trim(TrimType type)
_trim(w, o, type) ==
    IF len(w, o) = 0 THEN w
    ELSE trim_move([w EXCEPT !.read_past =
                        \/ @
                        \/ trim_begin(buffer(w, o), type) >= Len(buffer(w, o))
                        \/ trim_end(buffer(w, o), type, trim_begin(buffer(w, o), type),
                                    len(w, o)) < 0],
                   o, trim_begin(buffer(w, o), type),
                   trim_end(buffer(w, o), type, trim_begin(buffer(w, o), type), len(w, o)))

\* memchr_P(characters, c, n) != nullptr
memchr_P(characters, c, n) == \E i \in 1..n : i <= Len(characters) /\ characters[i] = c

\* _trim(TrimType, PGM_P, size_t): len after the first loop
trim_P_len(bytes, length, characters, n) ==
    MaxOf({k \in 0..length : k = 0 \/ ~memchr_P(characters, Slice(bytes, k - 1, 1, 0)[1], n)})

\* _trim(TrimType, PGM_P, size_t): remove after the second loop; the storage
\* ends the walk of a buffer that holds nothing but bytes of the set
trim_P_remove(bytes, characters, n) ==
    MinOf({i \in 0..Len(bytes) : i = Len(bytes) \/ ~memchr_P(characters, bytes[i + 1], n)})

\* _trim(TrimType, PGM_P, size_t): the leading part, w1 the world after the
\* trailing part and n the charLen the lookups use
trim_P_left(w1, o, type, characters, n) ==
    IF trimsLeft(type)
    THEN remove([w1 EXCEPT !.read_past =
                     @ \/ trim_P_remove(buffer(w1, o), characters, n) >= Len(buffer(w1, o))],
                o, 0, trim_P_remove(buffer(w1, o), characters, n))
    ELSE poke(w1, o, len(w1, o), <<0>>)

\* _trim(TrimType type, PGM_P characters, size_t charLen), characters not null
_trim_P(w, o, type, characters, charLen) ==
    IF len(w, o) = 0 \/ charLen = 0 THEN w
    ELSE trim_P_left(IF trimsRight(type)
                     THEN setLen(w, o, trim_P_len(buffer(w, o), len(w, o), characters,
                                                  charLen + 1))
                     ELSE w,
                     o, type, characters, charLen + 1)

(***************************************************************************)
(* The program: two String objects and statements over them.               *)
(***************************************************************************)
\* an object nothing has constructed
Pristine == [isSSO |-> TRUE, buff |-> Fill(SSOSIZE, 0), len |-> 0, cap |-> 0, ptr |-> 0]

\* the world of the current state, with the allocator's answers of the step
World(al) == [str |-> str, heap |-> heap, al |-> al, junk |-> junk,
              wrote_past |-> wrote_past, read_past |-> read_past, ticks |-> 0,
              bad |-> bad, ret |-> TRUE]

\* the next state is the world w1, and r the statement's result
Store(w1, r, l) ==
    /\ str' = w1.str
    /\ heap' = w1.heap
    /\ ret' = r
    /\ wrote_past' = w1.wrote_past
    /\ read_past' = w1.read_past
    /\ ticks' = w1.ticks
    /\ bad' = w1.bad
    /\ last' = l
    /\ junk' = junk
    /\ steps' = steps - 1

\* the state after a statement: the result object is gone with the statement
\* unless the statement's value is kept for inspection
Commit(w, keep, l) ==
    Store(IF keep THEN w ELSE [invalidate(w, Tmp) EXCEPT !.str[Tmp] = Pristine], w.ret, l)


Als(k) == [1..k -> AllocAnswers]

\* what the last statement was: its name, its destination, its String operand
\* (0 when it has none), its literal operands (<<>> when it has none), its
\* TrimType ("" when it has none) and the heap block the destination owned
\* when the statement began (0 for none)
Op(name, o, s, arg) ==
    [op |-> name, o |-> o, s |-> s, arg |-> arg, arg2 |-> <<>>, type |-> "",
     own |-> IF o = 0 THEN 0 ELSE IF str[o].isSSO THEN 0 ELSE str[o].ptr]

\* literals in RAM and in flash (terminator included), and a character
Lits == {<<97, 0>>, Fill(12, 97) \o <<0>>}

PLits == {<<97, 97, 97, 0>>, Fill(20, 97) \o <<0>>}

\* the statements of a run; steps is the number of statements still to come
MaxSteps == 3

Chars == {97}

InitObjects ==
    /\ junk \in JunkBytes
    /\ steps = MaxSteps
    /\ str = [o \in AllObjs |-> IF o = Tmp THEN Pristine
                                ELSE [Pristine EXCEPT !.buff = <<0>> \o Fill(SSOSIZE - 1, junk)]]
    /\ heap = [b \in Blocks |-> <<>>]
    /\ ret = TRUE
    /\ wrote_past = FALSE
    /\ read_past = FALSE
    /\ ticks = 0
    /\ bad = FALSE
    /\ last = Op("init", 0, 0, <<>>)

Init == InitObjects

\* o = cstr;
AssignCstr ==
    /\ steps > 0
    /\ \E o \in Objs, cstr \in Lits, al \in Als(1) :
           Commit(assignCstr(World(al), o, cstr), FALSE, Op("assignCstr", o, 0, cstr))

\* o = F(pstr);
AssignPstr ==
    /\ steps > 0
    /\ \E o \in Objs, pstr \in PLits, al \in Als(1) :
           Commit(assignPstr(World(al), o, pstr), FALSE, Op("assignPstr", o, 0, pstr))

\* o = s;
AssignString ==
    /\ steps > 0
    /\ \E o \in Objs, s \in Objs, al \in Als(1) :
           Commit(assignString(World(al), o, s), FALSE, Op("assignString", o, s, <<>>))

\* o = std::move(s);
AssignMove ==
    /\ steps > 0
    /\ \E o \in Objs, s \in Objs :
           Commit(assignMove(World(<<>>), o, s), FALSE, Op("assignMove", o, s, <<>>))

\* o.concat(cstr, strlen(cstr));
Concat ==
    /\ steps > 0
    /\ \E o \in Objs, cstr \in Lits, al \in Als(1) :
           Commit(concat(World(al), o, cstr, strlen(cstr, 0)), FALSE, Op("concat", o, 0, cstr))

\* o.concat(F(pstr));
Concat_P ==
    /\ steps > 0
    /\ \E o \in Objs, pstr \in PLits, al \in Als(1) :
           Commit(concat_P(World(al), o, pstr), FALSE, Op("concat_P", o, 0, pstr))

\* o.concat(s); s may be o
ConcatString ==
    /\ steps > 0
    /\ \E o \in Objs, s \in Objs, al \in Als(1) :
           Commit(concatString(World(al), o, s), FALSE, Op("concatString", o, s, <<>>))

\* o.invalidate();
Invalidate ==
    /\ steps > 0
    /\ \E o \in Objs :
           Commit(invalidate(World(<<>>), o), FALSE, Op("invalidate", o, 0, <<>>))

\* d = lhs + std::move(rhs);
Plus_String_rval ==
    /\ steps > 0
    /\ \E d \in Objs, lhs \in Objs, rhs \in Objs, al \in Als(2) :
           Commit(assignMove(plus_String_rval(World(al), lhs, rhs), d, Tmp), FALSE,
                  Op("plus_String_rval", d, rhs, <<>>))

\* d = std::move(lhs) + std::move(rhs);
Plus_rval_rval ==
    /\ steps > 0
    /\ \E d \in Objs, lhs \in Objs, rhs \in Objs, al \in Als(1) :
           Commit(assignMove(plus_rval_rval(World(al), lhs, rhs), d, Tmp), FALSE,
                  Op("plus_rval_rval", d, rhs, <<>>))

\* d = c + rhs;
Plus_char_String ==
    /\ steps > 0
    /\ \E d \in Objs, c \in Chars, rhs \in Objs, al \in Als(2) :
           Commit(assignMove(plus_char_String(World(al), c, rhs), d, Tmp), FALSE,
                  Op("plus_char_String", d, rhs, <<c>>))

\* d = cstr + rhs;
Plus_cstr_String ==
    /\ steps > 0
    /\ \E d \in Objs, cstr \in Lits, rhs \in Objs, al \in Als(2) :
           Commit(assignMove(plus_cstr_String(World(al), cstr, rhs), d, Tmp), FALSE,
                  Op("plus_cstr_String", d, rhs, cstr))

\* the length of the words, and the offsets and counts of the editing statements
MaxWord == 3

\* the length of the longest value a substring is taken of
MaxRamp == 13

\* the sets of a character-set trim (terminator included), the pairs of a
\* character replace, and the patterns and replacements of a general replace
CharSets == {<<120, 0>>, <<32, 120, 0>>}

CharPairs == {<<97, 120>>, <<120, 32>>}

Finds == {<<97, 0>>, <<97, 97, 0>>}

Repls == {<<0>>, <<120, 0>>, <<97, 97, 0>>, <<120, 120, 120, 0>>, Fill(7, 97) \o <<0>>}

\* o.insert(position, cstr, strlen(cstr));
Insert ==
    /\ steps > 0
    /\ \E o \in Objs, position \in 0..MaxWord, cstr \in Lits, al \in Als(1) :
           Commit(insert(World(al), o, position, extern(cstr), strlen(cstr, 0)), FALSE,
                  Op("insert", o, 0, cstr))

\* o.remove(index, count);
Remove ==
    /\ steps > 0
    /\ \E o \in Objs, index \in 0..MaxWord, count \in 0..MaxWord :
           Commit(remove(World(<<>>), o, index, count), FALSE,
                  Op("remove", o, 0, <<index, count>>))

\* o.replace(find, repl); for two characters
ReplaceChar ==
    /\ steps > 0
    /\ \E o \in Objs, p \in CharPairs :
           Commit(replaceChar(World(<<>>), o, p[1], p[2]), FALSE,
                  Op("replaceChar", o, 0, p))

\* o._replace(find, strlen(find), repl, strlen(repl));
Replace ==
    /\ steps > 0
    /\ \E o \in Objs, find \in Finds, repl \in Repls, al \in Als(1) :
           Commit(_replace(World(al), o, find, strlen(find, 0), repl, strlen(repl, 0)),
                  FALSE, [Op("replace", o, 0, find) EXCEPT !.arg2 = repl])

\* o._trim(type);
Trim ==
    /\ steps > 0
    /\ \E o \in Objs, type \in TrimTypes :
           Commit(_trim(World(<<>>), o, type), FALSE, [Op("trim", o, 0, <<>>) EXCEPT !.type = type])

\* o._trim(type, characters, strlen(characters));
Trim_P ==
    /\ steps > 0
    /\ \E o \in Objs, type \in TrimTypes, characters \in CharSets :
           Commit(_trim_P(World(<<>>), o, type, characters, strlen(characters, 0)), FALSE,
                  [Op("trim_P", o, 0, characters) EXCEPT !.type = type])

\* o.toLowerCase();
ToLowerCase ==
    /\ steps > 0
    /\ \E o \in Objs :
           Commit(toLowerCase(World(<<>>), o), FALSE, Op("toLowerCase", o, 0, <<>>))

\* o.toUpperCase();
ToUpperCase ==
    /\ steps > 0
    /\ \E o \in Objs :
           Commit(toUpperCase(World(<<>>), o), FALSE, Op("toUpperCase", o, 0, <<>>))

\* String res = o.substring(left, right); the result stays for inspection, the
\* result of an earlier statement is gone
Substring ==
    /\ steps > 0
    /\ \E o \in Objs, left \in 0..(MaxRamp + 1), right \in 0..(MaxRamp + 1), al \in Als(1) :
           Commit(substring(invalidate(World(al), Tmp), o, left, right), TRUE,
                  Op("substring", o, 0, <<left, right>>))

\* o.equalsConstantTime(s);
EqualsConstantTime ==
    /\ steps > 0
    /\ \E o \in Objs, s \in Objs :
           Commit(equalsConstantTime(World(<<>>), o, s), FALSE,
                  Op("equalsConstantTime", o, s, <<>>))

Next ==
    \/ AssignCstr
    \/ AssignPstr
    \/ AssignString
    \/ AssignMove
    \/ Concat
    \/ Concat_P
    \/ ConcatString
    \/ Invalidate
    \/ Plus_String_rval
    \/ Plus_rval_rval
    \/ Plus_char_String
    \/ Plus_cstr_String

Spec == Init /\ [][Next]_vars

(***************************************************************************)
(* Values built by a constructor, and the statements on one value.         *)
(***************************************************************************)
\* the strings of 1..n characters of A
Words(A, n) == UNION {{f \o <<>> : f \in [1..k -> A]} : k \in 1..n}

\* the world in which nothing is constructed and the allocator answers al
Blank(al, j) == [str |-> [o \in AllObjs |-> Pristine], heap |-> [b \in Blocks |-> <<>>],
                 al |-> al, junk |-> j, wrote_past |-> FALSE, read_past |-> FALSE,
                 ticks |-> 0, bad |-> FALSE, ret |-> TRUE]

\* String o(cstr): init(), then copy(cstr, strlen_P(cstr))
String_cstr(w, o, cstr) == copy(construct(w, o), o, cstr, strlen(cstr, 0))

\* the state is the world w, with n statements to come
InitWorld(w, l, n) ==
    /\ str = w.str
    /\ heap = w.heap
    /\ ret = TRUE
    /\ wrote_past = FALSE
    /\ read_past = FALSE
    /\ ticks = 0
    /\ bad = FALSE
    /\ last = l
    /\ steps = n

\* the value under test, and the other one
V == 1

Other == 1 + V

\* what the constructor of V was given
Built(word) == [op |-> "String", o |-> V, s |-> 0, arg |-> word, arg2 |-> <<>>,
                type |-> "", own |-> 0]

\* the first n letters of the alphabet
Ramp(n) == [i \in 1..n |-> 96 + i] \o <<>>

(***************************************************************************)
(* Self-concatenation: a value constructed from a word, then v.concat(v)   *)
(* again and again.                                                        *)
(***************************************************************************)
\* the characters of the words
AB == {97, 98}

\* the calls of a run
MaxSelf == 5

InitSelfConcat ==
    /\ junk \in JunkBytes
    /\ \E word \in Words(AB, MaxWord) :
          InitWorld(String_cstr(Blank(<<>>, junk), V, word \o <<0>>),
                    Built(word), MaxSelf)

\* v.concat(v);
SelfConcat ==
    /\ steps > 0
    /\ \E al \in Als(1) :
        Commit(concatString(World(al), V, V), FALSE, Op("selfConcat", V, V, <<>>))

NextSelfConcat == SelfConcat

SpecSelfConcat == InitSelfConcat /\ [][NextSelfConcat]_vars

(***************************************************************************)
(* Self-insertion: a value constructed from a word, then                   *)
(* v.insert(position, v) again and again.                                  *)
(***************************************************************************)
\* the calls of a run
MaxInsert == 3

InitSelfInsert ==
    /\ junk \in JunkBytes
    /\ \E word \in Words(AB, MaxWord) :
          InitWorld(String_cstr(Blank(<<>>, junk), V, word \o <<0>>),
                    Built(word), MaxInsert)

\* v.insert(position, v);
SelfInsert ==
    /\ steps > 0
    /\ \E position \in 0..(str[V].len + 1), al \in Als(1) :
        Commit(insertString(World(al), V, position, V), FALSE,
               Op("selfInsert", V, V, <<position>>))

NextSelfInsert == SelfInsert

SpecSelfInsert == InitSelfInsert /\ [][NextSelfInsert]_vars

(***************************************************************************)
(* In-place editing: a value constructed from a word, then statements that *)
(* edit it.                                                                *)
(***************************************************************************)
\* the characters of the words: space, a and x
EditChars == {32, 97, 120}

\* the statements of a run
MaxEdit == 2

InitEdit ==
    /\ junk \in JunkBytes
    /\ \E word \in Words(EditChars, MaxWord) :
          InitWorld(construct(String_cstr(Blank(<<>>, junk), V, word \o <<0>>), Other),
                    Built(word), MaxEdit)

NextEdit ==
    \/ AssignCstr
    \/ Concat
    \/ Insert
    \/ Remove
    \/ ReplaceChar
    \/ Replace
    \/ Trim
    \/ Trim_P
    \/ ToLowerCase
    \/ ToUpperCase

SpecEdit == InitEdit /\ [][NextEdit]_vars

(***************************************************************************)
(* Substring: a value constructed from the first letters of the alphabet,  *)
(* then a substring of it.                                                 *)
(***************************************************************************)
\* the statements of a run
MaxSub == 1

InitSubstring ==
    /\ junk \in JunkBytes
    /\ \E n \in 0..MaxRamp :
          InitWorld(construct(String_cstr(Blank(<<>>, junk), V, Ramp(n) \o <<0>>), Other),
                    Built(Ramp(n)), MaxSub)

NextSubstring == Substring

SpecSubstring == InitSubstring /\ [][NextSubstring]_vars

(***************************************************************************)
(* Comparison: two values constructed from words, then character-set trims *)
(* and comparisons.                                                        *)
(***************************************************************************)
\* the words: short ones, long ones that differ in their last character, and
\* one that ends in a character of the trimmed sets
EqWords ==
    {<<>>, <<97, 120>>} \cup Words(AB, MaxWord) \cup {Fill(SSOSIZE, 97) \o <<c>> : c \in AB}

\* the statements of a run
MaxEq == 2

InitEq ==
    /\ junk \in JunkBytes
    /\ \E word \in EqWords, other \in EqWords :
          InitWorld(String_cstr(String_cstr(Blank(<<>>, junk), V, word \o <<0>>),
                                Other, other \o <<0>>),
                    [Built(word) EXCEPT !.arg2 = other], MaxEq)

NextEq ==
    \/ Trim_P
    \/ EqualsConstantTime

SpecEq == InitEq /\ [][NextEq]_vars

(***************************************************************************)
(* Trimming: a value constructed from a word, then a trim.                 *)
(***************************************************************************)
\* the statements of a run
MaxTrim == 1

InitTrim ==
    /\ junk \in JunkBytes
    /\ \E word \in Words(EditChars, MaxWord) :
          InitWorld(construct(String_cstr(Blank(<<>>, junk), V, word \o <<0>>), Other),
                    Built(word), MaxTrim)

NextTrim ==
    \/ Trim
    \/ Trim_P

SpecTrim == InitTrim /\ [][NextTrim]_vars

(***************************************************************************)
(* Reservation: a value constructed from the first letters of the          *)
(* alphabet, then calls of reserve().                                      *)
(***************************************************************************)
\* the sizes asked for: around the inline capacity, the multiples of 16 and
\* the ceiling, and the greatest ones
Sizes == {0, 5, SSOSIZE - 1, SSOSIZE, 15, 16, 31, 32, CAPACITY_MAX, CAPACITY_MAX + 1,
          UINT_MAX - 16, UINT_MAX - 15, UINT_MAX}

\* the calls of a run
MaxReserve == 2

InitReserve ==
    /\ junk \in JunkBytes
    /\ \E n \in 0..MaxRamp :
          InitWorld(construct(String_cstr(Blank(<<>>, junk), V, Ramp(n) \o <<0>>), Other),
                    Built(Ramp(n)), MaxReserve)

\* v.reserve(size); type is the answer the allocator has for the call
Reserve ==
    /\ steps > 0
    /\ \E size \in Sizes, al \in Als(1) :
        Commit(reserve(World(al), V, size), FALSE,
               [Op("reserve", V, 0, <<size>>) EXCEPT !.type = al[1]])

NextReserve == Reserve

SpecReserve == InitReserve /\ [][NextReserve]_vars

(***************************************************************************)
(* Views of a state, for the properties.                                   *)
(***************************************************************************)
\* the state as a world
Now == [str |-> str, heap |-> heap, al |-> <<>>, junk |-> junk,
        wrote_past |-> wrote_past, read_past |-> read_past, ticks |-> ticks,
        bad |-> bad, ret |-> ret]

\* the state after the step as a world
Then == [str |-> str', heap |-> heap', al |-> <<>>, junk |-> junk',
         wrote_past |-> wrote_past', read_past |-> read_past', ticks |-> ticks',
         bad |-> bad', ret |-> ret']

\* the bytes of a literal, without its terminator
Text(lit) == Slice(lit, 0, strlen(lit, 0), 0)

\* the initial, empty state of a value: inline, length 0, terminated at 0
IsInitial(w, o) == isSSO(w, o) /\ len(w, o) = 0 /\ buffer(w, o)[1] = 0

\* the heap block a value owns, 0 when it owns none
Owned(w, o) == IF isSSO(w, o) THEN 0 ELSE w.str[o].ptr

ConcatOps == {"concat", "concat_P", "concatString"}

AssignOps == {"assignCstr", "assignPstr", "assignString"}

\* the byte at offset len() of the active storage is the terminator
Terminated(w, o) == len(w, o) < Len(buffer(w, o)) /\ buffer(w, o)[len(w, o) + 1] = 0

\* the pattern occurs in the text
Occurs(pattern, text) ==
    \E i \in 0..(Len(text) - Len(pattern)) : matchAt(text, i, pattern, Len(pattern))

\* the reference replacement: a scan from left to right that replaces the
\* leftmost match and goes on after it
RECURSIVE RefReplace(_, _, _)
RefReplace(text, pattern, repl) ==
    IF Len(text) < Len(pattern) \/ Len(pattern) = 0 THEN text
    ELSE IF matchAt(text, 0, pattern, Len(pattern))
         THEN repl \o RefReplace(SubSeq(text, Len(pattern) + 1, Len(text)), pattern, repl)
         ELSE <<Head(text)>> \o RefReplace(Tail(text), pattern, repl)

(***************************************************************************)
(* C1: after any sequence of assignments, concats, inserts, removes,       *)
(* replaces, whitespace trims, character-set trims and case conversions,   *)
(* the byte at offset length() of the active storage of every value is 0.  *)
(* The code does not keep this: a character-set trim of both ends that     *)
(* removes trailing characters and no leading one sets the new length and  *)
(* writes no terminator.                                                   *)
(***************************************************************************)
C1_TerminatedAfterEdits == \A o \in Objs : Terminated(Now, o)

\* a character-set trim of both ends has left a non-empty value whose byte at
\* offset length() is a character of the set
C1_Witness ==
    /\ last.op = "trim_P" /\ last.type = "BOTH"
    /\ len(Now, last.o) > 0
    /\ ~Terminated(Now, last.o)
    /\ memchr_P(last.arg, buffer(Now, last.o)[len(Now, last.o) + 1], strlen(last.arg, 0))

(***************************************************************************)
(* C2: after any sequence of editing statements, length() <= capacity()    *)
(* holds for every value, the active storage has capacity() + 1 bytes and  *)
(* no write went past its end. The code does not keep this: the second     *)
(* pass of the growing replace finds matches the first pass did not count. *)
(***************************************************************************)
C2_LengthWithinCapacity ==
    /\ ~wrote_past
    /\ \A o \in Objs : /\ len(Now, o) <= capacity(Now, o)
                       /\ Len(buffer(Now, o)) = capacity(Now, o) + 1

\* a growing replace has returned true with the length above the capacity
C2_Witness ==
    /\ last.op = "replace" /\ ret /\ wrote_past
    /\ strlen(last.arg2, 0) > strlen(last.arg, 0)
    /\ len(Now, last.o) > capacity(Now, last.o)

(***************************************************************************)
(* C7: a general replace whose pattern does not occur in the value returns *)
(* false and leaves the value as it was. The code returns true in the      *)
(* equal-length and in the shrinking branch.                               *)
(***************************************************************************)
C7_NoMatchReturnsFalse ==
    [][(last'.op = "replace" /\ Terminated(Now, last'.o) /\ len(Now, last'.o) > 0
          /\ ~Occurs(Text(last'.arg), content(Now, last'.o)))
         => /\ ~ret'
            /\ str' = str /\ heap' = heap]_vars

\* the first statement, the replace of "a" by "x", has returned true on a
\* value of three spaces
C7_Witness ==
    /\ steps = MaxEdit - 1
    /\ last.op = "replace" /\ ret /\ last.o = V
    /\ last.arg = <<97, 0>> /\ last.arg2 = <<120, 0>>
    /\ content(Now, V) = <<32, 32, 32>>

(***************************************************************************)
(* C8: the content after a general replace that returns true is the        *)
(* reference replacement of the content before it, in every branch. The    *)
(* growing branch of the code does not give it: it takes the matches from  *)
(* the right, and a match it finds may lie across a replacement it wrote.  *)
(***************************************************************************)
C8_ReplaceIsLeftmostFirst ==
    [][(last'.op = "replace" /\ ret' /\ Terminated(Now, last'.o))
         => content(Then, last'.o)
              = RefReplace(content(Now, last'.o), Text(last'.arg), Text(last'.arg2))]_vars

\* the first statement, the replace of "aa" by "xxx", has left "axxx": the
\* value was "aaa", whose reference replacement is "xxxa"
C8_Witness ==
    /\ steps = MaxEdit - 1
    /\ last.op = "replace" /\ ret /\ last.o = V
    /\ last.arg = <<97, 97, 0>> /\ last.arg2 = <<120, 120, 120, 0>>
    /\ content(Now, V) = <<97, 120, 120, 120>>

\* the bytes [min(left, right), min(max(left, right), length)) of the text
Range(text, left, right) ==
    SubSeq(text,
           (IF left < right THEN left ELSE right) + 1,
           IF left > right THEN (IF left > Len(text) THEN Len(text) ELSE left)
           ELSE (IF right > Len(text) THEN Len(text) ELSE right))

\* the source is what it was
SourceKept ==
    /\ str'[last'.o] = str[last'.o]
    /\ buffer(Then, last'.o) = buffer(Now, last'.o)
    /\ content(Then, last'.o) = content(Now, last'.o)
    /\ Terminated(Then, last'.o)

(***************************************************************************)
(* C9: substring(left, right) leaves the source with the representation,   *)
(* bytes, length and terminator it had; the result holds the bytes         *)
(* [min(left, right), min(max(left, right), length)) of the source, and    *)
(* is empty when min(left, right) >= length, if the copy into the result   *)
(* got its storage; if it did not, which happens only for a range longer   *)
(* than the inline capacity, the result is in the initial empty state.     *)
(***************************************************************************)
C9_SubstringCopiesOrEmpty ==
    [][last'.op = "substring" =>
         /\ SourceKept
         /\ IF ret'
            THEN /\ content(Then, Tmp)
                      = Range(content(Now, last'.o), last'.arg[1], last'.arg[2])
                 /\ Terminated(Then, Tmp)
                 /\ len(Then, Tmp) <= capacity(Then, Tmp)
            ELSE /\ IsInitial(Then, Tmp)
                 /\ Len(Range(content(Now, last'.o), last'.arg[1], last'.arg[2]))
                      > SSOSIZE - 1]_vars

\* the statement as the claim has it: the result holds the range whether or
\* not the copy got its storage
C9_SubstringIsRange ==
    [][last'.op = "substring" =>
         /\ SourceKept
         /\ content(Then, Tmp)
              = Range(content(Now, last'.o), last'.arg[1], last'.arg[2])]_vars

\* a substring with left > right has failed to get its storage: the result is
\* empty and the source, a value in a heap block, is terminated at its length
C9_Witness ==
    /\ last.op = "substring" /\ ~ret
    /\ last.arg[1] > last.arg[2]
    /\ IsInitial(Now, Tmp)
    /\ ~isSSO(Now, last.o) /\ content(Now, last.o) = Ramp(MaxRamp)
    /\ Terminated(Now, last.o)

(***************************************************************************)
(* C10: equalsConstantTime on two values of equal non-zero length runs its *)
(* loop length() times, wherever the values first differ, and returns 1    *)
(* exactly when the contents are equal; it returns 0 without a loop when   *)
(* the lengths differ and 1 without a loop when both lengths are 0. The    *)
(* code does not keep this for a value that the character-set trim of C1   *)
(* has left without its terminator: the loop runs to the next 0 byte.      *)
(***************************************************************************)
C10_ComparesEveryPosition ==
    [][last'.op = "equalsConstantTime" =>
         IF len(Now, last'.o) # len(Now, last'.s) THEN ~ret' /\ ticks' = 0
         ELSE IF len(Now, last'.o) = 0 THEN ret' /\ ticks' = 0
         ELSE /\ ticks' = len(Now, last'.o)
              /\ ret' <=> content(Now, last'.o) = content(Now, last'.s)
              /\ str' = str /\ heap' = heap]_vars

\* "ax" after the trim of "x" at both ends has been compared with "a": the
\* lengths and the contents are equal, the loop has run twice and the result
\* is 0
C10_Witness ==
    /\ last.op = "equalsConstantTime" /\ ~ret
    /\ last.o = V /\ last.s = Other
    /\ len(Now, V) = 1 /\ len(Now, Other) = 1
    /\ content(Now, V) = content(Now, Other)
    /\ ~Terminated(Now, V) /\ Terminated(Now, Other)
    /\ ticks = 2

(***************************************************************************)
(* C3: when concat (of a byte run, a flash string, another value or the    *)
(* value itself) returns false because reserve() failed (the allocator     *)
(* failed or the rounded size is above the ceiling), the value's length,   *)
(* content, capacity and representation and its heap block are what they   *)
(* were before the call: the value is not invalidated.                     *)
(***************************************************************************)
C3_ConcatFailureKeepsValue ==
    [][(last'.op \in ConcatOps /\ ~ret')
         => /\ str'[last'.o] = str[last'.o]
            /\ heap' = heap
            /\ content(Then, last'.o) = content(Now, last'.o)]_vars

\* a concat of a byte run has failed on a value that owns a heap block
C3_Witness ==
    /\ last.op = "concat" /\ ~ret
    /\ ~isSSO(Now, last.o) /\ len(Now, last.o) > 0

(***************************************************************************)
(* C4: an assignment (from a byte run, a flash string or another value)    *)
(* that gets its storage leaves the destination with the source's length   *)
(* and content; one that does not get it leaves the destination in the     *)
(* initial state (inline, length 0) with the heap block it owned released. *)
(***************************************************************************)
C4_AssignFailureInvalidates ==
    [][last'.op \in AssignOps =>
         LET o   == last'.o
             src == IF last'.op = "assignString" THEN content(Now, last'.s)
                    ELSE Text(last'.arg)
         IN  IF ret'
             THEN /\ content(Then, o) = src
                  /\ len(Then, o) = Len(src)
                  /\ len(Then, o) <= capacity(Then, o)
                  /\ buffer(Then, o)[len(Then, o) + 1] = 0
             ELSE /\ IsInitial(Then, o)
                  /\ Owned(Now, o) # 0 => heap'[Owned(Now, o)] = <<>>]_vars

\* an assignment has failed on a destination that owned a heap block
C4_Witness ==
    /\ last.op \in AssignOps /\ ~ret
    /\ last.own # 0 /\ heap[last.own] = <<>>
    /\ IsInitial(Now, last.o)

NoSharing ==
    \A o1 \in AllObjs : Owned(Now, o1) # 0 =>
        /\ heap[Owned(Now, o1)] # <<>>
        /\ \A o2 \in AllObjs \ {o1} : Owned(Now, o2) # Owned(Now, o1)

NoLeak == \A b \in Blocks : heap[b] # <<>> => \E o \in AllObjs : Owned(Now, o) = b

MoveStep ==
    last'.op = "assignMove" =>
        IF last'.o # last'.s
        THEN /\ IsInitial(Then, last'.s)
             /\ str'[last'.o] = str[last'.s]
             /\ content(Then, last'.o) = content(Now, last'.s)
             /\ Owned(Now, last'.o) # 0 => heap'[Owned(Now, last'.o)] = <<>>
        ELSE str' = str /\ heap' = heap

CopyStep ==
    (last'.op = "assignString" /\ ret' /\ last'.o # last'.s) =>
        /\ content(Then, last'.o) = content(Now, last'.s)
        /\ content(Then, last'.s) = content(Now, last'.s)
        /\ wbuffer(Then, last'.o) # wbuffer(Then, last'.s)

(***************************************************************************)
(* C5: in every state no two values own the same heap block, every owned   *)
(* block is allocated, every allocated block is owned and free() was never *)
(* given a block that is not allocated; a copy-assignment that got its     *)
(* storage holds the source's content in storage of its own; a             *)
(* move-assignment from another value leaves the source in the initial     *)
(* state and the destination with the source's representation and content, *)
(* the destination's previous block released; a move-assignment of a value *)
(* to itself changes nothing.                                              *)
(***************************************************************************)
C5_SingleOwner ==
    /\ [](NoSharing /\ NoLeak /\ ~bad)
    /\ [][MoveStep /\ CopyStep]_vars

\* a value that owned a heap block has been move-assigned another value's heap
\* block
C5_Witness ==
    /\ last.op = "assignMove" /\ last.o # last.s
    /\ last.own # 0 /\ heap[last.own] = <<>>
    /\ ~isSSO(Now, last.o) /\ len(Now, last.o) > 0
    /\ IsInitial(Now, last.s)

(***************************************************************************)
(* C6: a v.concat(v) that returns true on a non-empty value leaves the     *)
(* content followed by itself, twice the length, and a terminator after    *)
(* it, whether the storage stayed where it was, went from the inline       *)
(* buffer to the heap or was moved by the allocator.                       *)
(***************************************************************************)
C6_SelfConcatDoubles ==
    [][(last'.op = "selfConcat" /\ ret' /\ len(Now, V) > 0)
         => /\ content(Then, V) = content(Now, V) \o content(Now, V)
            /\ len(Then, V) = 2 * len(Now, V)
            /\ buffer(Then, V)[len(Then, V) + 1] = 0
            /\ len(Then, V) <= capacity(Then, V)]_vars

\* a self-concatenation has succeeded with the heap block moved by the
\* allocator, on a value that began in the inline buffer
C6_Witness ==
    /\ last.op = "selfConcat" /\ ret
    /\ last.own # 0 /\ Owned(Now, V) # 0 /\ Owned(Now, V) # last.own
    /\ len(Now, V) > SSOSIZE

\* the text with ins inserted at offset position
Inserted(text, position, ins) ==
    SubSeq(text, 1, position) \o ins \o SubSeq(text, position + 1, Len(text))

(***************************************************************************)
(* C11: a v.insert(position, v) whose growth relocates the storage (from   *)
(* the inline buffer to the heap, or to another heap block) leaves the     *)
(* content with a copy of itself inserted at position. The code does not   *)
(* keep this: the pointer v.c_str() is taken before reserve(), and the     *)
(* copy reads the storage that reserve() has superseded.                   *)
(***************************************************************************)
C11_SelfInsertReadsActive ==
    [][(last'.op = "selfInsert" /\ ret' /\ wbuffer(Then, V) # wbuffer(Now, V))
         => /\ content(Then, V)
                 = Inserted(content(Now, V), last'.arg[1], content(Now, V))
            /\ buffer(Then, V)[len(Then, V) + 1] = 0]_vars

\* a self-insertion has moved the value from the inline buffer to the heap
\* and the bytes inserted are not the bytes the value held
C11_Witness ==
    /\ last.op = "selfInsert" /\ ret
    /\ last.own = 0 /\ Owned(Now, V) # 0
    /\ len(Now, V) > SSOSIZE /\ len(Now, V) % 2 = 0
    /\ \E i \in 1..(len(Now, V) \div 2) :
           content(Now, V)[last.arg[1] + i] \notin AB

\* n + 16 rounded down to a multiple of 16
Rounded(n) == ((n + 16) \div 16) * 16

\* the value is what it was: representation, length, block and bytes
ValueKept == str'[V] = str[V] /\ heap' = heap

(***************************************************************************)
(* C12: reserve(n) changes nothing and returns true when capacity() >= n.  *)
(* Otherwise, with size = n + 16 rounded down to a multiple of 16, it      *)
(* fails without changing the value when size is above CAPACITY_MAX or the *)
(* allocator fails; else it returns true with the value in a heap block of *)
(* size bytes, capacity() = size - 1 >= n, length and content as before    *)
(* and every byte past the old storage size zero. A value in a heap block  *)
(* stays in one. The code does not keep this for the greatest n: n + 16    *)
(* wraps to a size of 0, which passes the ceiling test.                    *)
(***************************************************************************)
C12_ReserveRoundsUp ==
    [][last'.op = "reserve" =>
         /\ ~isSSO(Now, V) => ~isSSO(Then, V)
         /\ IF capacity(Now, V) >= last'.arg[1] THEN ret' /\ ValueKept
            ELSE IF Rounded(last'.arg[1]) > CAPACITY_MAX \/ last'.type = "fail"
                 THEN ~ret' /\ ValueKept
            ELSE /\ ret'
                 /\ ~isSSO(Then, V)
                 /\ Len(buffer(Then, V)) = Rounded(last'.arg[1])
                 /\ capacity(Then, V) = Rounded(last'.arg[1]) - 1
                 /\ capacity(Then, V) >= last'.arg[1]
                 /\ len(Then, V) = len(Now, V)
                 /\ content(Then, V) = content(Now, V)
                 /\ \A i \in (capacity(Now, V) + 2)..Rounded(last'.arg[1]) :
                        buffer(Then, V)[i] = 0]_vars

\* a reserve of UINT_MAX on a value in a heap block has returned false and
\* the block of the value is free
C12_Witness ==
    /\ last.op = "reserve" /\ ~ret
    /\ last.arg[1] = UINT_MAX
    /\ last.own # 0 /\ Owned(Now, V) = last.own
    /\ heap[last.own] = <<>>

\* the greatest offset the leading scan of the character-set trim reads: the
\* scan reads the byte at offset remove before it stops
LeadingScanReads(w, o, characters) ==
    trim_P_remove(buffer(w, o), characters, strlen(characters, 0) + 1)

\* the least offset the trailing scan of the whitespace trim reads: the scan
\* reads the byte at end before it stops
TrailingScanReads(w, o, type) ==
    trim_end(buffer(w, o), type, trim_begin(buffer(w, o), type), len(w, o))

(***************************************************************************)
(* C13: a trim of a non-empty value that is terminated at its length reads *)
(* only the bytes at the offsets 0..length() of the active storage: the    *)
(* leading scan of the character-set trim reads no offset above length(),  *)
(* the trailing scan of the whitespace trim reads no offset below 0, and   *)
(* no read leaves the storage. The code does not keep this: the lookup of  *)
(* the character-set trim counts the terminator as a member, and the       *)
(* whitespace trim reads *end before it compares end with begin.           *)
(***************************************************************************)
C13_TrimReadsWithinValue ==
    [][(last'.op \in {"trim", "trim_P"} /\ len(Now, last'.o) > 0
          /\ Terminated(Now, last'.o) /\ ~read_past)
         => /\ ~read_past'
            /\ (last'.op = "trim_P" /\ trimsLeft(last'.type))
                  => LeadingScanReads(Now, last'.o, last'.arg) <= len(Now, last'.o)
            /\ (last'.op = "trim" /\ trimsRight(last'.type))
                  => TrailingScanReads(Now, last'.o, last'.type) >= 0]_vars

\* a character-set trim of both ends of a value made only of characters of
\* the set has read beyond the end of the storage: the length is 0 and the
\* first byte is still a character of the set
C13_Witness ==
    /\ last.op = "trim_P" /\ last.type = "BOTH" /\ last.o = V
    /\ read_past
    /\ len(Now, V) = 0
    /\ buffer(Now, V)[1] # 0
    /\ memchr_P(last.arg, buffer(Now, V)[1], strlen(last.arg, 0))

====
